---------------------------- MODULE Spec2Model ----------------------------
(***************************************************************************)
(* Model of core/storage/src/utils.rs: the prefixed hex codecs             *)
(* (BytesToHexSerde, OptionBytesToHexSerde) and the StoredBigUint adapter   *)
(* for the Postgres numeric column.                                        *)
(*                                                                         *)
(* A Rust String is a sequence of one-character strings, a Vec<u8> is a    *)
(* sequence of 0..255, a BigUint is the sequence of its decimal digits     *)
(* (most significant first, no leading zero, zero is the empty sequence),  *)
(* so that no value is bounded by the width of an integer.                 *)
(***************************************************************************)
EXTENDS Integers, Sequences, FiniteSets, TLC

VARIABLES prev, last

vars == <<prev, last>>

(***************************************************************************)
(* Bounds of the explored inputs.                                          *)
(***************************************************************************)
MaxLen == 2

MaxBody == 3

MaxDigits == 5

MaxScale == 5

ByteVals == {0, 10, 171, 205, 255}

BodyChars == {"1", "a", "B", "g"}

DigitVals == {0, 1, 5}

SeqsUpTo(S, n) == UNION {[1..k -> S] : k \in 0..n}

(***************************************************************************)
(* Option<T> and Result<T, E>.                                             *)
(***************************************************************************)
None == [some |-> FALSE, v |-> <<>>]

Some(x) == [some |-> TRUE, v |-> x]

Ok(x) == [ok |-> TRUE, v |-> x]

Error(kind, prefix, c, index) ==
    [ok |-> FALSE, err |-> [kind |-> kind, prefix |-> prefix, c |-> c, index |-> index]]

(***************************************************************************)
(* The Prefix trait and its implementors.                                  *)
(***************************************************************************)
RegisteredTags == {"SyncBlockPrefix", "ZeroxPrefix", "SyncTxPrefix"}

\* Further implementors of the (open) trait: one whose prefix extends "0x"
\* with hex digits, one whose prefix is the common start of the sync tags.
OtherTags == {"ZeroxAbPrefix", "SyncPrefix"}

Tags == RegisteredTags \cup OtherTags

Prefix(P) ==
    CASE P = "SyncBlockPrefix" -> <<"s", "y", "n", "c", "-", "b", "l", ":">>
      [] P = "ZeroxPrefix"     -> <<"0", "x">>
      [] P = "SyncTxPrefix"    -> <<"s", "y", "n", "c", "-", "t", "x", ":">>
      [] P = "ZeroxAbPrefix"   -> <<"0", "x", "a", "b">>
      [] P = "SyncPrefix"      -> <<"s", "y", "n", "c", "-">>

(***************************************************************************)
(* str::starts_with and the slice s[n..].                                  *)
(***************************************************************************)
\* starts_with that compares the first character only
starts_with_first_char(s, p) == Len(s) >= Len(p) /\ (p = <<>> \/ s[1] = p[1])

starts_with(s, p) == Len(s) >= Len(p) /\ SubSeq(s, 1, Len(p)) = p

\* the slice s[n-1..]: one character of the prefix is kept
SliceFrom_off_by_one(s, n) == SubSeq(s, n, Len(s))

SliceFrom(s, n) == SubSeq(s, n + 1, Len(s))

(***************************************************************************)
(* hex::encode and hex::decode.                                            *)
(***************************************************************************)
HexCharsLower ==
    <<"0", "1", "2", "3", "4", "5", "6", "7", "8", "9", "a", "b", "c", "d", "e", "f">>

HexCharsUpper ==
    <<"0", "1", "2", "3", "4", "5", "6", "7", "8", "9", "A", "B", "C", "D", "E", "F">>

\* hex::encode_upper in place of hex::encode
RECURSIVE HexEncode_upper(_)
HexEncode_upper(bytes) ==
    IF bytes = <<>> THEN <<>>
    ELSE <<HexCharsUpper[(Head(bytes) \div 16) + 1], HexCharsUpper[(Head(bytes) % 16) + 1]>>
         \o HexEncode_upper(Tail(bytes))

RECURSIVE HexEncode(_)
HexEncode(bytes) ==
    IF bytes = <<>> THEN <<>>
    ELSE <<HexCharsLower[(Head(bytes) \div 16) + 1], HexCharsLower[(Head(bytes) % 16) + 1]>>
         \o HexEncode(Tail(bytes))

\* val without the + 10 of the upper-case arm
HexVal_upper_without_offset(c) ==
    IF \E i \in 11..16 : HexCharsUpper[i] = c
    THEN (CHOOSE i \in 11..16 : HexCharsUpper[i] = c) - 11
    ELSE IF \E i \in 11..16 : HexCharsLower[i] = c
    THEN (CHOOSE i \in 11..16 : HexCharsLower[i] = c) - 1
    ELSE IF \E i \in 1..10 : HexCharsLower[i] = c
    THEN (CHOOSE i \in 1..10 : HexCharsLower[i] = c) - 1
    ELSE -1

\* val(c, idx) of the hex crate; -1 stands for Err(InvalidHexCharacter)
HexVal(c) ==
    IF \E i \in 11..16 : HexCharsUpper[i] = c
    THEN (CHOOSE i \in 11..16 : HexCharsUpper[i] = c) - 1
    ELSE IF \E i \in 11..16 : HexCharsLower[i] = c
    THEN (CHOOSE i \in 11..16 : HexCharsLower[i] = c) - 1
    ELSE IF \E i \in 1..10 : HexCharsLower[i] = c
    THEN (CHOOSE i \in 1..10 : HexCharsLower[i] = c) - 1
    ELSE -1

HexDecode(s) ==
    IF Len(s) % 2 # 0 THEN Error("OddLength", <<>>, "", 0)
    ELSE LET bad == {i \in 1..Len(s) : HexVal(s[i]) = -1}
         IN  IF bad # {}
             THEN LET i == CHOOSE j \in bad : \A k \in bad : j <= k
                  IN  Error("InvalidHexCharacter", <<>>, s[i], i - 1)
             ELSE Ok([i \in 1..(Len(s) \div 2) |->
                         HexVal(s[2 * i - 1]) * 16 + HexVal(s[2 * i])])

(***************************************************************************)
(* BytesToHexSerde<P>                                                      *)
(***************************************************************************)
BytesToHexSerde_serialize(P, value) == Ok(Prefix(P) \o HexEncode(value))

\* deserialize that cuts the length of the prefix off without looking at it
BytesToHexSerde_deserialize_unchecked(P, deserialized_string) ==
    IF Len(deserialized_string) >= Len(Prefix(P))
    THEN HexDecode(SliceFrom(deserialized_string, Len(Prefix(P))))
    ELSE Error("missing prefix", Prefix(P), "", 0)

BytesToHexSerde_deserialize(P, deserialized_string) ==
    IF starts_with(deserialized_string, Prefix(P))
    THEN HexDecode(SliceFrom(deserialized_string, Len(Prefix(P))))
    ELSE Error("missing prefix", Prefix(P), "", 0)

(***************************************************************************)
(* OptionBytesToHexSerde<P>                                                *)
(***************************************************************************)
\* serialize that writes None as the value of zero bytes
OptionBytesToHexSerde_serialize_none_as_empty(P, value) ==
    IF value.some THEN Ok(Some(Prefix(P) \o HexEncode(value.v))) ELSE Ok(Some(Prefix(P)))

OptionBytesToHexSerde_serialize(P, value) ==
    IF value.some THEN Ok(Some(Prefix(P) \o HexEncode(value.v))) ELSE Ok(None)

\* deserialize that takes a present string without the prefix for None
OptionBytesToHexSerde_deserialize_lenient(P, optional_deserialized_string) ==
    IF optional_deserialized_string.some
    THEN LET s == optional_deserialized_string.v
         IN  IF starts_with(s, Prefix(P))
             THEN LET r == HexDecode(SliceFrom(s, Len(Prefix(P))))
                  IN  IF r.ok THEN Ok(Some(r.v)) ELSE r
             ELSE Ok(None)
    ELSE Ok(None)

OptionBytesToHexSerde_deserialize(P, optional_deserialized_string) ==
    IF optional_deserialized_string.some
    THEN LET s == optional_deserialized_string.v
             r == IF starts_with(s, Prefix(P))
                  THEN HexDecode(SliceFrom(s, Len(Prefix(P))))
                  ELSE Error("missing prefix", Prefix(P), "", 0)
         IN  IF r.ok THEN Ok(Some(r.v)) ELSE r
    ELSE Ok(None)

(***************************************************************************)
(* num::BigUint and num::BigInt.  A BigUint is its decimal digits, most    *)
(* significant first, without leading zeros; zero is <<>>.                 *)
(***************************************************************************)
RECURSIVE Normalize(_)
Normalize(ds) ==
    IF ds = <<>> THEN <<>>
    ELSE IF Head(ds) = 0 THEN Normalize(Tail(ds))
    ELSE ds

Zeros(k) == [i \in 1..k |-> 0]

\* data * 10^k
MulPow10(data, k) == IF data = <<>> THEN <<>> ELSE data \o Zeros(k)

\* data / 10^k
DivPow10(data, k) == IF Len(data) <= k THEN <<>> ELSE SubSeq(data, 1, Len(data) - k)

\* data % 10^k
ModPow10(data, k) ==
    IF Len(data) <= k THEN data ELSE Normalize(SubSeq(data, Len(data) - k + 1, Len(data)))

\* BigInt::from_biguint(sign, data)
BigInt_from_biguint(sign, data) ==
    IF sign = "NoSign" \/ data = <<>>
    THEN [sign |-> "NoSign", data |-> <<>>]
    ELSE [sign |-> sign, data |-> data]

\* BigInt::from(BigUint)
BigInt_from(n) == BigInt_from_biguint("Plus", n)

\* BigInt::to_biguint
to_biguint(i) == IF i.sign = "Minus" THEN None ELSE Some(i.data)

(***************************************************************************)
(* bigdecimal::BigDecimal: int_val * 10^(-scale).                          *)
(***************************************************************************)
BigDecimal_new(int_val, scale) == [int_val |-> int_val, scale |-> scale]

\* BigDecimal::from(BigInt)
BigDecimal_from(int_val) == BigDecimal_new(int_val, 0)

with_scale(d, new_scale) ==
    IF d.int_val.data = <<>> THEN BigDecimal_new(BigInt_from_biguint("NoSign", <<>>), new_scale)
    ELSE IF new_scale > d.scale
    THEN BigDecimal_new(
             BigInt_from_biguint(d.int_val.sign, MulPow10(d.int_val.data, new_scale - d.scale)),
             new_scale)
    ELSE IF new_scale < d.scale
    THEN BigDecimal_new(
             BigInt_from_biguint(d.int_val.sign, DivPow10(d.int_val.data, d.scale - new_scale)),
             new_scale)
    ELSE d

\* is_integer that takes every positive scale for a fraction
is_integer_by_scale(d) == d.scale <= 0

is_integer(d) ==
    IF d.scale <= 0 THEN TRUE ELSE ModPow10(d.int_val.data, d.scale) = <<>>

\* ToBigInt for BigDecimal
to_bigint(d) == Some(with_scale(d, 0).int_val)

(***************************************************************************)
(* diesel's PgNumeric, the value of the numeric column on the wire:        *)
(* Positive or Negative with weight, scale and base-10000 digits, or NaN;  *)
(* and its conversions to and from BigDecimal.                             *)
(***************************************************************************)
PgNumeric(sign, weight, scale, digits) ==
    [sign |-> sign, weight |-> weight, scale |-> scale, digits |-> digits]

\* the value (0..9999) of a BigUint below 10000
RECURSIVE ToSmall(_)
ToSmall(data) ==
    IF data = <<>> THEN 0 ELSE 10 * ToSmall(SubSeq(data, 1, Len(data) - 1)) + data[Len(data)]

\* the four decimal digits of a base-10000 digit
Pad4(g) == <<g \div 1000, (g \div 100) % 10, (g \div 10) % 10, g % 10>>

\* ToBase10000: the base-10000 digits, least significant first
RECURSIVE ToBase10000(_)
ToBase10000(data) ==
    LET div == DivPow10(data, 4)
        rem == ToSmall(ModPow10(data, 4))
    IN  <<rem>> \o (IF div = <<>> THEN <<>> ELSE ToBase10000(div))

Reverse(s) == [i \in 1..Len(s) |-> s[Len(s) + 1 - i]]

RECURSIVE StripTrailingZeroes(_)
StripTrailingZeroes(digits) ==
    IF digits # <<>> /\ digits[Len(digits)] = 0
    THEN StripTrailingZeroes(SubSeq(digits, 1, Len(digits) - 1))
    ELSE digits

\* the conversion without the padding digit when the scale is a multiple of 4
PgNumeric_from_unpadded(decimal) ==
    LET scale   == IF decimal.scale < 0 THEN 0 ELSE decimal.scale
        integer == IF decimal.scale < 0
                   THEN MulPow10(decimal.int_val.data, -decimal.scale)
                   ELSE decimal.int_val.data
        aligned == MulPow10(integer, (4 - (scale % 4)) % 4)
        digits  == Reverse(ToBase10000(aligned))
        digits_after_decimal == scale \div 4 + 1
        weight  == Len(digits) - digits_after_decimal - 1
    IN  CASE decimal.int_val.sign = "Plus" ->
                 PgNumeric("Positive", weight, scale, StripTrailingZeroes(digits))
          [] decimal.int_val.sign = "Minus" ->
                 PgNumeric("Negative", weight, scale, StripTrailingZeroes(digits))
          [] decimal.int_val.sign = "NoSign" ->
                 PgNumeric("Positive", 0, 0, <<0>>)

\* From<&BigDecimal> for PgNumeric
PgNumeric_from(decimal) ==
    LET scale   == IF decimal.scale < 0 THEN 0 ELSE decimal.scale
        integer == IF decimal.scale < 0
                   THEN MulPow10(decimal.int_val.data, -decimal.scale)
                   ELSE decimal.int_val.data
        aligned == MulPow10(integer, 4 - (scale % 4))
        digits  == Reverse(ToBase10000(aligned))
        digits_after_decimal == scale \div 4 + 1
        weight  == Len(digits) - digits_after_decimal - 1
    IN  CASE decimal.int_val.sign = "Plus" ->
                 PgNumeric("Positive", weight, scale, StripTrailingZeroes(digits))
          [] decimal.int_val.sign = "Minus" ->
                 PgNumeric("Negative", weight, scale, StripTrailingZeroes(digits))
          [] decimal.int_val.sign = "NoSign" ->
                 PgNumeric("Positive", 0, 0, <<0>>)

\* result = result * 10000 + digit, over all digits
RECURSIVE FromBase10000(_)
FromBase10000(digits) ==
    IF digits = <<>> THEN <<>>
    ELSE Normalize(FromBase10000(SubSeq(digits, 1, Len(digits) - 1))
                   \o Pad4(digits[Len(digits)]))

PgNaN == PgNumeric("NaN", 0, 0, <<>>)

\* pg_decimal_to_bigdecimal
BigDecimal_from_PgNumeric(numeric) ==
    IF numeric.sign = "NaN" THEN Error("NaN is not (yet) supported in BigDecimal", <<>>, "", 0)
    ELSE LET sign   == IF numeric.sign = "Positive" THEN "Plus" ELSE "Minus"
             result == FromBase10000(numeric.digits)
             count  == Len(numeric.digits)
             correction_exp == 4 * (numeric.weight - count + 1)
         IN  Ok(with_scale(BigDecimal_new(BigInt_from_biguint(sign, result), -correction_exp),
                           numeric.scale))

\* FromSql<Numeric, Pg> for BigDecimal
BigDecimal_from_sql(bytes) ==
    IF bytes.some THEN BigDecimal_from_PgNumeric(bytes.v)
    ELSE Error("UnexpectedNullError", <<>>, "", 0)

(***************************************************************************)
(* StoredBigUint                                                           *)
(***************************************************************************)
StoredBigUint_to_sql(self) ==
    LET bigdecimal == BigDecimal_from(BigInt_from(self))
    IN  Ok(Some(PgNumeric_from(bigdecimal)))

\* from_sql that looks at the sign before it looks at the fraction
StoredBigUint_from_sql_sign_first(bytes) ==
    LET r == BigDecimal_from_sql(bytes)
    IN  IF ~r.ok THEN r
        ELSE LET big_decimal == r.v
             IN  IF big_decimal.int_val.sign = "Minus"
                 THEN Error("Not unsigned integer", <<>>, "", 0)
                 ELSE IF is_integer(big_decimal)
                 THEN Ok(with_scale(big_decimal, 0).int_val.data)
                 ELSE Error("Decimal number stored as BigUint", <<>>, "", 0)

StoredBigUint_from_sql(bytes) ==
    LET r == BigDecimal_from_sql(bytes)
    IN  IF ~r.ok THEN r
        ELSE LET big_decimal == r.v
             IN  IF is_integer(big_decimal)
                 THEN LET i == to_bigint(big_decimal)
                          u == IF i.some THEN to_biguint(i.v) ELSE None
                      IN  IF u.some THEN Ok(u.v)
                          ELSE Error("Not unsigned integer", <<>>, "", 0)
                 ELSE Error("Decimal number stored as BigUint", <<>>, "", 0)

(***************************************************************************)
(* Inputs of the adapter calls: the integers to store and the column       *)
(* values to load (null, what a writer of decimals stores, zero as the     *)
(* server sends it: no digits, any display scale, and NaN).                *)
(***************************************************************************)
TwoPow128 ==
    <<3, 4, 0, 2, 8, 2, 3, 6, 6, 9, 2, 0, 9, 3, 8, 4, 6, 3, 4, 6,
      3, 3, 7, 4, 6, 0, 7, 4, 3, 1, 7, 6, 8, 2, 1, 1, 4, 5, 6>>

BigUints == {Normalize(ds) : ds \in SeqsUpTo(DigitVals, MaxDigits)} \cup {TwoPow128}

Decimals ==
    {BigDecimal_new(BigInt_from_biguint(sign, n), scale) :
        sign \in {"Plus", "Minus"}, n \in BigUints, scale \in 0..MaxScale}

Columns ==
    {None} \cup {Some(PgNumeric_from(d)) : d \in Decimals}
           \cup {Some(PgNumeric("Positive", 0, scale, <<>>)) : scale \in 0..MaxScale}
           \cup {Some(PgNaN)}

(***************************************************************************)
(* Inputs of the codec calls.                                              *)
(***************************************************************************)
ByteSeqs == SeqsUpTo(ByteVals, MaxLen)

OptByteSeqs == {None} \cup {Some(b) : b \in ByteSeqs}

Heads == {Prefix(P) : P \in Tags} \cup {<<>>, <<"0", "X">>, <<"s", "y", "n", "c", "-", "b", "l">>}

ExternalStrings ==
    {h \o b : h \in Heads, b \in SeqsUpTo(BodyChars, MaxBody)}
    \cup {<<"0", "x", "1", "a", "2", "b">>, <<"1", "a", "2", "b">>}

OptExternalStrings == {None} \cup {Some(s) : s \in ExternalStrings}

(***************************************************************************)
(* A call: the operation, its tag, its argument and its result.  A         *)
(* behaviour is one call on an argument from outside, followed by at most  *)
(* one call that consumes its result; prev is then the first call.         *)
(***************************************************************************)
NoCall == [op |-> "none", tag |-> "none", in |-> <<>>, out |-> <<>>]

Call(op, tag, in, out) == [op |-> op, tag |-> tag, in |-> in, out |-> out]

\* the arguments a call can take: from outside, or the result of the call
\* op just made
Args(outside, op) ==
    IF last = NoCall THEN outside
    ELSE IF prev = NoCall /\ last.op = op /\ last.out.ok THEN {last.out.v}
    ELSE {}

Init == prev = NoCall /\ last = NoCall

Serialize(P) ==
    \E value \in Args(ByteSeqs, "deserialize") :
        /\ last' = Call("serialize", P, value, BytesToHexSerde_serialize(P, value))
        /\ prev' = last

Deserialize(P) ==
    \E s \in Args(ExternalStrings, "serialize") :
        /\ last' = Call("deserialize", P, s, BytesToHexSerde_deserialize(P, s))
        /\ prev' = last

OptSerialize(P) ==
    \E value \in Args(OptByteSeqs, "opt_deserialize") :
        /\ last' = Call("opt_serialize", P, value, OptionBytesToHexSerde_serialize(P, value))
        /\ prev' = last

OptDeserialize(P) ==
    \E s \in Args(OptExternalStrings, "opt_serialize") :
        /\ last' = Call("opt_deserialize", P, s, OptionBytesToHexSerde_deserialize(P, s))
        /\ prev' = last

ToSql ==
    \E self \in Args(BigUints, "from_sql") :
        /\ last' = Call("to_sql", "none", self, StoredBigUint_to_sql(self))
        /\ prev' = last

FromSql ==
    \E bytes \in Args(Columns, "to_sql") :
        /\ last' = Call("from_sql", "none", bytes, StoredBigUint_from_sql(bytes))
        /\ prev' = last

Next ==
    \/ \E P \in Tags : Serialize(P)
    \/ \E P \in Tags : Deserialize(P)
    \/ \E P \in Tags : OptSerialize(P)
    \/ \E P \in Tags : OptDeserialize(P)
    \/ ToSql
    \/ FromSql

Spec == Init /\ [][Next]_vars

(***************************************************************************)
(* What the properties are stated with: the external formats as the        *)
(* documentation describes them, independent of the code above.            *)
(***************************************************************************)
IsPrefixOf(p, s) == Len(p) <= Len(s) /\ \A i \in 1..Len(p) : s[i] = p[i]

Rest(s, p) == [i \in 1..(Len(s) - Len(p)) |-> s[Len(p) + i]]

LowerDigit ==
    "0" :> 0 @@ "1" :> 1 @@ "2" :> 2 @@ "3" :> 3 @@ "4" :> 4 @@ "5" :> 5 @@ "6" :> 6
    @@ "7" :> 7 @@ "8" :> 8 @@ "9" :> 9 @@ "a" :> 10 @@ "b" :> 11 @@ "c" :> 12
    @@ "d" :> 13 @@ "e" :> 14 @@ "f" :> 15

UpperToLower ==
    "A" :> "a" @@ "B" :> "b" @@ "C" :> "c" @@ "D" :> "d" @@ "E" :> "e" @@ "F" :> "f"

ToLower(c) == IF c \in DOMAIN UpperToLower THEN UpperToLower[c] ELSE c

LowerStr(s) == [i \in 1..Len(s) |-> ToLower(s[i])]

\* even length, digits 0-9 a-f A-F
ValidHex(s) == Len(s) % 2 = 0 /\ \A i \in 1..Len(s) : ToLower(s[i]) \in DOMAIN LowerDigit

FormatErrors == {"missing prefix", "OddLength", "InvalidHexCharacter"}

HexErrors == {"OddLength", "InvalidHexCharacter"}

\* A column that holds a decimal: not null and not NaN.
PgIsDecimal(col) == col.some /\ col.v.sign \in {"Positive", "Negative"}

\* The value of a decimal: sum of digits[i] * 10000^(weight + 1 - i), negated
\* for Negative.  It has a fraction when a non-zero digit lies after the point.
PgHasFraction(pg) == \E i \in 1..Len(pg.digits) : pg.digits[i] # 0 /\ i > pg.weight + 1

PgIsZero(pg) == \A i \in 1..Len(pg.digits) : pg.digits[i] = 0

PgIsNegative(pg) == pg.sign = "Negative" /\ ~PgIsZero(pg)

\* the decimal digits of the digits before the point
RECURSIVE PgIntegralDigits(_, _)
PgIntegralDigits(pg, i) ==
    IF i > pg.weight + 1 THEN <<>>
    ELSE (IF i <= Len(pg.digits)
          THEN <<pg.digits[i] \div 1000, (pg.digits[i] \div 100) % 10,
                 (pg.digits[i] \div 10) % 10, pg.digits[i] % 10>>
          ELSE <<0, 0, 0, 0>>)
         \o PgIntegralDigits(pg, i + 1)

RECURSIVE DropLeadingZeros(_)
DropLeadingZeros(ds) ==
    IF ds # <<>> /\ ds[1] = 0 THEN DropLeadingZeros(SubSeq(ds, 2, Len(ds))) ELSE ds

PgIntegralPart(pg) == DropLeadingZeros(PgIntegralDigits(pg, 1))

(***************************************************************************)
(* C1                                                                      *)
(***************************************************************************)
\* C1: hex round trip: for every byte sequence b and every registered tag T,
\* deserialize::<T> applied to the string serialize::<T>(b) produced succeeds
\* and returns exactly b.
C1_HexRoundTrip ==
    (/\ prev.op = "serialize"
     /\ last.op = "deserialize"
     /\ prev.tag \in RegisteredTags
     /\ last.tag = prev.tag)
        => (last.out.ok /\ last.out.v = prev.in)

C1_Witness ==
    /\ prev.op = "serialize" /\ last.op = "deserialize"
    /\ prev.tag = "SyncTxPrefix" /\ last.tag = "SyncTxPrefix"
    /\ prev.in = <<10, 255>>
    /\ last.in = <<"s", "y", "n", "c", "-", "t", "x", ":", "0", "a", "f", "f">>
    /\ last.out.ok

(***************************************************************************)
(* C2                                                                      *)
(***************************************************************************)
\* C2: big-integer round trip: for every non-negative integer n, also one wider
\* than a machine word such as 2^128, from_sql applied to the decimal that
\* StoredBigUint(n).to_sql wrote succeeds and returns StoredBigUint(n).
C2_BigUintRoundTrip ==
    (prev.op = "to_sql" /\ last.op = "from_sql")
        => (last.out.ok /\ last.out.v = prev.in)

C2_Witness ==
    /\ prev.op = "to_sql" /\ last.op = "from_sql"
    /\ prev.in = TwoPow128
    /\ Len(last.in.v.digits) = 10
    /\ last.out.ok

(***************************************************************************)
(* C3                                                                      *)
(***************************************************************************)
\* C3 as claimed: for every byte sequence b and two distinct tags T and U such
\* that U's prefix is not a prefix of T's prefix, decoding under T the string
\* encoded under U fails with a FormatError.
C3_Original ==
    (/\ prev.op = "serialize"
     /\ last.op = "deserialize"
     /\ last.tag # prev.tag
     /\ ~IsPrefixOf(Prefix(prev.tag), Prefix(last.tag)))
        => (~last.out.ok /\ last.out.err.kind \in FormatErrors)

\* C3 as amended: for every byte sequence b and two distinct tags T and U such
\* that neither U's prefix is a prefix of T's prefix nor T's prefix is a prefix
\* of U's prefix, decoding under T the string encoded under U fails with a
\* FormatError.
C3_TagDiscrimination ==
    (/\ prev.op = "serialize"
     /\ last.op = "deserialize"
     /\ last.tag # prev.tag
     /\ ~IsPrefixOf(Prefix(prev.tag), Prefix(last.tag))
     /\ ~IsPrefixOf(Prefix(last.tag), Prefix(prev.tag)))
        => (~last.out.ok /\ last.out.err.kind \in FormatErrors)

C3_Witness ==
    /\ prev.op = "serialize" /\ last.op = "deserialize"
    /\ prev.tag = "SyncBlockPrefix" /\ last.tag = "SyncTxPrefix"
    /\ prev.in = <<171, 205>>
    /\ ~last.out.ok

(***************************************************************************)
(* C4                                                                      *)
(***************************************************************************)
\* C4: optional round trip with absence kept distinct: for every optional byte
\* sequence ob and registered tag T, the optional deserialize of the optional
\* serialize of ob is ob; None is written as the absent marker and never as a
\* tagged string, Some(no bytes) is written as the prefix alone.
C4_OptionRoundTrip ==
    /\ (/\ prev.op = "opt_serialize"
        /\ last.op = "opt_deserialize"
        /\ prev.tag \in RegisteredTags
        /\ last.tag = prev.tag)
           => (last.out.ok /\ last.out.v = prev.in)
    /\ (last.op = "opt_serialize" /\ last.tag \in RegisteredTags)
           => /\ last.out.ok
              /\ ~last.in.some => ~last.out.v.some
              /\ last.in.some => last.out.v.some
              /\ (last.in.some /\ last.in.v = <<>>) => last.out.v.v = Prefix(last.tag)

C4_Witness ==
    /\ prev.op = "opt_serialize" /\ last.op = "opt_deserialize"
    /\ prev.tag = "SyncTxPrefix" /\ last.tag = "SyncTxPrefix"
    /\ ~prev.in.some
    /\ ~last.in.some
    /\ last.out.ok /\ ~last.out.v.some

(***************************************************************************)
(* C5                                                                      *)
(***************************************************************************)
\* C5: decode acceptance and rejection: for every string s and tag T,
\* deserialize::<T>(s) succeeds if and only if s starts with T's prefix and
\* the remainder is valid hex; without the prefix it fails with the
\* missing-prefix error, with the prefix and an invalid or odd-length
\* remainder it fails with the hex-decode error, and an error carries no bytes.
C5_DecodeAcceptance ==
    last.op = "deserialize" =>
        LET s == last.in
            p == Prefix(last.tag)
        IN  /\ last.out.ok <=> (IsPrefixOf(p, s) /\ ValidHex(Rest(s, p)))
            /\ ~IsPrefixOf(p, s) =>
                   /\ ~last.out.ok
                   /\ last.out.err.kind = "missing prefix"
                   /\ last.out.err.prefix = p
            /\ (IsPrefixOf(p, s) /\ ~ValidHex(Rest(s, p))) =>
                   /\ ~last.out.ok
                   /\ last.out.err.kind \in HexErrors
            /\ ~last.out.ok => DOMAIN last.out = {"ok", "err"}

C5_Witness ==
    /\ last.op = "deserialize"
    /\ last.tag = "ZeroxPrefix"
    /\ last.in = <<"1", "a", "2", "b">>
    /\ ~last.out.ok
    /\ last.out.err.kind = "missing prefix"

(***************************************************************************)
(* C6                                                                      *)
(***************************************************************************)
\* C6: from_sql fails with the missing-value error when the raw value is
\* absent, with the non-integral error whenever the decimal has a non-zero
\* fractional part (whatever its sign), with the negative-value error when
\* the decimal is integral and negative, and otherwise succeeds with the
\* unsigned integer equal to the decimal; exactly one of the four happens
\* for every input, absent or a decimal.
C6_FromSqlClassification ==
    (last.op = "from_sql" /\ (~last.in.some \/ PgIsDecimal(last.in))) =>
        IF ~last.in.some
        THEN ~last.out.ok /\ last.out.err.kind = "UnexpectedNullError"
        ELSE IF PgHasFraction(last.in.v)
        THEN ~last.out.ok /\ last.out.err.kind = "Decimal number stored as BigUint"
        ELSE IF PgIsNegative(last.in.v)
        THEN ~last.out.ok /\ last.out.err.kind = "Not unsigned integer"
        ELSE last.out.ok /\ last.out.v = PgIntegralPart(last.in.v)

\* the column holds -1.5
C6_Witness ==
    /\ last.op = "from_sql"
    /\ last.in.some
    /\ last.in.v = PgNumeric("Negative", 0, 1, <<1, 5000>>)
    /\ ~last.out.ok
    /\ last.out.err.kind = "Decimal number stored as BigUint"

(***************************************************************************)
(* C7                                                                      *)
(***************************************************************************)
\* C7: encode output format: for every byte sequence b and tag T,
\* serialize::<T>(b) succeeds and the string is T's prefix followed by two
\* digits in 0-9a-f per byte, of length len(prefix) + 2 * len(b); for no bytes
\* it is the prefix alone, and SyncBlockPrefix gives "sync-bl:abcd" for
\* [0xAB, 0xCD].
C7_EncodeFormat ==
    last.op = "serialize" =>
        LET b == last.in
            p == Prefix(last.tag)
        IN  /\ last.out.ok
            /\ Len(last.out.v) = Len(p) + 2 * Len(b)
            /\ IsPrefixOf(p, last.out.v)
            /\ \A i \in 1..Len(b) :
                   LET hi == last.out.v[Len(p) + 2 * i - 1]
                       lo == last.out.v[Len(p) + 2 * i]
                   IN  /\ hi \in DOMAIN LowerDigit
                       /\ lo \in DOMAIN LowerDigit
                       /\ 16 * LowerDigit[hi] + LowerDigit[lo] = b[i]
            /\ b = <<>> => last.out.v = p
            /\ (last.tag = "SyncBlockPrefix" /\ b = <<171, 205>>) =>
                   last.out.v = <<"s", "y", "n", "c", "-", "b", "l", ":", "a", "b", "c", "d">>

C7_Witness ==
    /\ last.op = "serialize"
    /\ last.tag = "SyncBlockPrefix"
    /\ last.in = <<171, 205>>
    /\ Len(last.out.v) = 12

(***************************************************************************)
(* C8                                                                      *)
(***************************************************************************)
\* C8: integral decimals with fractional zeros are accepted: for every
\* non-negative integer n and scale k >= 0, from_sql on the decimal n written
\* with k fractional zeros succeeds and returns n, the same result as for the
\* decimal n of scale 0; decimal 0 at any scale yields zero.
C8_FractionalZerosAccepted ==
    (/\ last.op = "from_sql"
     /\ PgIsDecimal(last.in)
     /\ ~PgIsNegative(last.in.v)
     /\ ~PgHasFraction(last.in.v))
        => LET n == PgIntegralPart(last.in.v)
               plain == StoredBigUint_from_sql(StoredBigUint_to_sql(n).v)
           IN  /\ last.out.ok
               /\ last.out.v = n
               /\ plain.ok
               /\ plain.v = last.out.v
               /\ PgIsZero(last.in.v) => last.out.v = <<>>

\* the column holds 15.000
C8_Witness ==
    /\ last.op = "from_sql"
    /\ last.in.some
    /\ last.in.v = PgNumeric("Positive", 0, 3, <<15>>)
    /\ last.out.ok
    /\ last.out.v = <<1, 5>>

(***************************************************************************)
(* C9                                                                      *)
(***************************************************************************)
\* C9: the optional decoder agrees with the plain decoder on present values:
\* for every string s and tag T, the optional deserialize of Some(s) is
\* Ok(Some(v)) exactly when the plain deserialize of s is Ok(v) and is the same
\* error exactly when the plain one fails; the absent marker gives Ok(None).
C9_OptionDecoderAgrees ==
    last.op = "opt_deserialize" =>
        IF last.in.some
        THEN LET plain == BytesToHexSerde_deserialize(last.tag, last.in.v)
             IN  /\ last.out.ok = plain.ok
                 /\ plain.ok => (last.out.v.some /\ last.out.v.v = plain.v)
                 /\ ~plain.ok => last.out.err = plain.err
        ELSE last.out.ok /\ ~last.out.v.some

\* a present value without the prefix
C9_Witness ==
    /\ last.op = "opt_deserialize"
    /\ last.tag = "SyncBlockPrefix"
    /\ last.in.some
    /\ last.in.v = <<"0", "x", "a", "B">>
    /\ ~last.out.ok
    /\ last.out.err.kind = "missing prefix"

(***************************************************************************)
(* C10                                                                     *)
(***************************************************************************)
\* C10: decode ignores the case of the hex body and encode canonicalises it:
\* for every tag T and string s that deserialize::<T> accepts,
\* serialize(deserialize(s)) is T's prefix followed by the body of s in lower
\* case; two accepted strings decode to the same bytes if and only if their
\* bodies are equal ignoring case, and serialize(deserialize(s)) = s only when
\* the body of s is in lower case already.
C10_CaseCanonicalised ==
    (/\ prev.op = "deserialize"
     /\ last.op = "serialize"
     /\ last.tag = prev.tag)
        => LET s == prev.in
               p == Prefix(prev.tag)
               body == Rest(s, p)
           IN  /\ last.out.ok
               /\ last.out.v = p \o LowerStr(body)
               /\ (last.out.v = s) <=> (body = LowerStr(body))
               /\ \A body2 \in SeqsUpTo(BodyChars, MaxBody) :
                      LET other == BytesToHexSerde_deserialize(prev.tag, p \o body2)
                      IN  other.ok =>
                              ((other.v = prev.out.v) <=> (LowerStr(body2) = LowerStr(body)))

C10_Witness ==
    /\ prev.op = "deserialize" /\ last.op = "serialize"
    /\ prev.tag = "ZeroxPrefix" /\ last.tag = "ZeroxPrefix"
    /\ prev.in = <<"0", "x", "a", "B">>
    /\ last.in = <<171>>
    /\ last.out.v = <<"0", "x", "a", "b">>

=============================================================================
